---- MODULE Spec2Model ----
(***************************************************************************)
(* A model of the kefir terminal board (src/src/main.rs): the generic      *)
(* StatefulList cursor, the App seed data, the log rotation on_tick, the   *)
(* status cycle next_status / prev_status, the views computed by ui, and   *)
(* the control loop run_app.                                               *)
(*                                                                         *)
(* Conventions                                                             *)
(*  - Option<usize> is a sequence: None is <<>>, Some(i) is <<i>>.         *)
(*  - Indices are 0-based as in the source; a Vec is a sequence, so the    *)
(*    element at source index i is s[i + 1].                               *)
(*  - A usize u is represented by the integer z with z = u (mod 2^64) and  *)
(*    -2^63 <= z < 2^63, so usize::MAX is -1 and wrapping arithmetic is    *)
(*    integer arithmetic; unsigned comparison is ULt / UGe.  Only values   *)
(*    within MaxWrap of 0 are visited.                                     *)
(*  - `self.items.len() - 1` on an empty Vec overflows: the build either   *)
(*    panics (overflow checks on, the dev profile) or wraps (overflow      *)
(*    checks off, the release profile).  overflow_checks records which.    *)
(*  - List::render (ratatui, external) reads ListState.selected and        *)
(*    writes only ListState.offset, which no code of main.rs reads, so     *)
(*    drawing leaves the modelled state unchanged.                         *)
(***************************************************************************)
EXTENDS Integers, Sequences, FiniteSets, TLC

VARIABLES
    items,            \* app.items.items : Vec<(&str, usize, Status)>
    selected,         \* app.items.state.selected() : Option<usize>
    events,           \* app.events : Vec<(&str, &str)>
    active_column,    \* run_app's local active_column : Status
    elapsed,          \* last_tick.elapsed() in ms, saturated at TICK_RATE
    pc,               \* position of run_app: "draw", "poll", "tick"; "done"
                      \* after return Ok(()), "err" after a `?` returned
                      \* Err, "panicked"
    overflow_checks   \* TRUE: arithmetic overflow panics; FALSE: it wraps

vars == <<items, selected, events, active_column, elapsed, pc, overflow_checks>>

----------------------------------------------------------------------------
(* Bounds of the exploration *)

\* deletions explored starting from the 24-item seed
MaxDeletes == 1
\* longest board the nearly-emptied specification starts from
MaxLen == 3
\* number of log rotations explored
MaxTicks == 1
\* distance from 0 (mod 2^64) a wrapped index may travel on an empty list
MaxWrap == 1
\* granularity of the clock, in ms
TimeStep == 125

\* main: Duration::from_millis(250)
TICK_RATE == 250

----------------------------------------------------------------------------
(* Option<usize> and usize *)

None == <<>>
Some(i) == <<i>>

ULt(a, b) == IF (a < 0) = (b < 0) THEN a < b ELSE b < 0
UGe(a, b) == ~ULt(a, b)

\* |z| for a represented usize: its distance from 0 mod 2^64
Dist(z) == IF z < 0 THEN -z ELSE z

Min(a, b) == IF a < b THEN a ELSE b

----------------------------------------------------------------------------
(* enum Status and the two cycle functions *)

Status == {"ToDo", "UpNext", "InProgress"}

\* a cycle whose last arm returns to the wrong column
next_status_stuck(status) ==
    CASE status = "ToDo"       -> "UpNext"
      [] status = "UpNext"     -> "InProgress"
      [] status = "InProgress" -> "UpNext"

next_status(status) ==
    CASE status = "ToDo"       -> "UpNext"
      [] status = "UpNext"     -> "InProgress"
      [] status = "InProgress" -> "ToDo"

prev_status(status) ==
    CASE status = "ToDo"       -> "InProgress"
      [] status = "InProgress" -> "UpNext"
      [] status = "UpNext"     -> "ToDo"

----------------------------------------------------------------------------
(* App::new: the seed data *)

SeedItems == <<
    <<"Item0", 1, "ToDo">>,
    <<"Item1", 2, "ToDo">>,
    <<"Item2", 1, "ToDo">>,
    <<"Item3", 3, "ToDo">>,
    <<"Item4", 1, "ToDo">>,
    <<"Item5", 4, "ToDo">>,
    <<"Item6", 1, "ToDo">>,
    <<"Item7", 3, "ToDo">>,
    <<"Item8", 1, "ToDo">>,
    <<"Item9", 6, "ToDo">>,
    <<"Item10", 1, "InProgress">>,
    <<"Item11", 3, "InProgress">>,
    <<"Item12", 1, "InProgress">>,
    <<"Item13", 2, "InProgress">>,
    <<"Item14", 1, "InProgress">>,
    <<"Item15", 1, "InProgress">>,
    <<"Item16", 4, "InProgress">>,
    <<"Item17", 1, "InProgress">>,
    <<"Item18", 5, "InProgress">>,
    <<"Item19", 4, "InProgress">>,
    <<"Item20", 1, "InProgress">>,
    <<"Item21", 2, "UpNext">>,
    <<"Item22", 1, "UpNext">>,
    <<"Item23", 3, "UpNext">> >>

SeedEvents == <<
    <<"Event1", "INFO">>,
    <<"Event2", "INFO">>,
    <<"Event3", "CRITICAL">>,
    <<"Event4", "ERROR">>,
    <<"Event5", "INFO">>,
    <<"Event6", "INFO">>,
    <<"Event7", "WARNING">>,
    <<"Event8", "INFO">>,
    <<"Event9", "INFO">>,
    <<"Event10", "INFO">>,
    <<"Event11", "CRITICAL">>,
    <<"Event12", "INFO">>,
    <<"Event13", "INFO">>,
    <<"Event14", "INFO">>,
    <<"Event15", "INFO">>,
    <<"Event16", "INFO">>,
    <<"Event17", "ERROR">>,
    <<"Event18", "ERROR">>,
    <<"Event19", "INFO">>,
    <<"Event20", "INFO">>,
    <<"Event21", "WARNING">>,
    <<"Event22", "INFO">>,
    <<"Event23", "INFO">>,
    <<"Event24", "WARNING">>,
    <<"Event25", "INFO">>,
    <<"Event26", "INFO">> >>

----------------------------------------------------------------------------
(* impl StatefulList.  A list is [items, selected]; a method returns the   *)
(* list it leaves behind and whether it panicked.                          *)

with_items(its) == [items |-> its, selected |-> None]

Ok(its, sel) == [items |-> its, selected |-> sel, panicked |-> FALSE]
Panic(l) == [items |-> l.items, selected |-> l.selected, panicked |-> TRUE]

\* Vec::remove(i) on a Vec that holds index i
\* Vec::swap_remove in place of Vec::remove: the last element takes the
\* place of the removed one
RemoveAt_swap(s, i) ==
    [j \in 1..(Len(s) - 1) |-> IF j = i + 1 THEN s[Len(s)] ELSE s[j]]

RemoveAt(s, i) == SubSeq(s, 1, i) \o SubSeq(s, i + 2, Len(s))

\* next that stops at the last item instead of wrapping to the first
next_clamped(l) ==
    IF l.selected = None
    THEN Ok(l.items, Some(0))
    ELSE LET i == l.selected[1]
             len == Len(l.items)
         IN  IF len = 0 /\ overflow_checks
             THEN Panic(l)
             ELSE IF UGe(i, len - 1)
                  THEN Ok(l.items, Some(i))
                  ELSE Ok(l.items, Some(i + 1))

next(l) ==
    IF l.selected = None
    THEN Ok(l.items, Some(0))
    ELSE LET i == l.selected[1]
             len == Len(l.items)
         IN  IF len = 0 /\ overflow_checks
             THEN Panic(l)
             ELSE IF UGe(i, len - 1)
                  THEN Ok(l.items, Some(0))
                  ELSE Ok(l.items, Some(i + 1))

\* previous that stops at the first item instead of wrapping to the last
previous_clamped(l) ==
    IF l.selected = None
    THEN Ok(l.items, Some(0))
    ELSE LET i == l.selected[1]
         IN  Ok(l.items, Some(IF i = 0 THEN 0 ELSE i - 1))

previous(l) ==
    IF l.selected = None
    THEN Ok(l.items, Some(0))
    ELSE LET i == l.selected[1]
             len == Len(l.items)
         IN  IF i = 0
             THEN IF len = 0 /\ overflow_checks
                  THEN Panic(l)
                  ELSE Ok(l.items, Some(len - 1))
             ELSE Ok(l.items, Some(i - 1))

\* del_selected that keeps the index where it was
del_selected_keep_index(l) ==
    IF l.selected = None
    THEN Ok(l.items, None)
    ELSE LET i == l.selected[1]
         IN  IF UGe(i, Len(l.items))
             THEN Panic(l)
             ELSE Ok(RemoveAt(l.items, i), Some(i))

\* del_selected that treats "no selection" as the first item
del_selected_default_first(l) ==
    LET i == IF l.selected = None THEN 0 ELSE l.selected[1]
    IN  IF UGe(i, Len(l.items))
        THEN Panic(l)
        ELSE Ok(RemoveAt(l.items, i), Some(IF i = 0 THEN 0 ELSE i - 1))

del_selected(l) ==
    IF l.selected = None
    THEN Ok(l.items, None)
    ELSE LET i == l.selected[1]
         IN  IF UGe(i, Len(l.items))
             THEN Panic(l)
             ELSE Ok(RemoveAt(l.items, i), Some(IF i = 0 THEN 0 ELSE i - 1))

unselect(l) == Ok(l.items, None)

----------------------------------------------------------------------------
(* App::on_tick *)

\* a rotation the wrong way: the last entry is moved to the front
on_tick_backwards(evs) == <<evs[Len(evs)]>> \o SubSeq(evs, 1, Len(evs) - 1)

on_tick(evs) == Append(Tail(evs), Head(evs))

\* number of rotations applied to the seed queue, mod its length
Rotation(evs) ==
    LET pos == CHOOSE k \in 1..Len(evs) : evs[k] = SeedEvents[1]
    IN  (Len(evs) + 1 - pos) % Len(evs)

----------------------------------------------------------------------------
(* ui: the three column widgets built on every draw.  Each is the title of *)
(* its block, the items its filter keeps, and whether its block is drawn   *)
(* with the emphasis colour.                                               *)

Filter(its, status) == SelectSeq(its, LAMBDA i : i[3] = status)

to_do ==
    [title |-> "To Do",
     items |-> Filter(items, "UpNext"),
     emphasized |-> (active_column = "ToDo")]

up_next ==
    [title |-> "Up Next",
     items |-> Filter(items, "ToDo"),
     emphasized |-> (active_column = "UpNext")]

in_progress ==
    [title |-> "In Progress",
     items |-> Filter(items, "InProgress"),
     emphasized |-> (active_column = "InProgress")]

ui == <<to_do, up_next, in_progress>>

----------------------------------------------------------------------------
(* run_app *)

\* the key codes the match names, and one it does not
KeyCodes == {"q", "Left", "Down", "j", "k", "l", "h", "x", "Up", "a"}

\* what event::read() can return: a key press, a key event of another kind,
\* or an event that is not a key event
InputEvents ==
    [type : {"Key"}, code : KeyCodes, kind : {"Press"}]
        \cup {[type |-> "Key", code |-> "q", kind |-> "Release"]}
        \cup {[type |-> "Resize", code |-> "Null", kind |-> "Press"]}

KeyPressEvent(code) == [type |-> "Key", code |-> code, kind |-> "Press"]

\* the match on key.code: the board, the active column and whether the
\* loop returns, after the arm for `code` has run
Continue(r, col) ==
    [items |-> r.items, selected |-> r.selected, active_column |-> col,
     exit |-> IF r.panicked THEN "panicked" ELSE "continue"]

\* a match whose q arm does not return
match_key_q_continues(code, l, col) ==
    CASE code = "q"     -> Continue(Ok(l.items, l.selected), col)
      [] code = "Left"  -> Continue(unselect(l), col)
      [] code = "Down"  -> Continue(next(l), col)
      [] code = "j"     -> Continue(next(l), col)
      [] code = "k"     -> Continue(previous(l), col)
      [] code = "l"     -> Continue(Ok(l.items, l.selected), next_status(col))
      [] code = "h"     -> Continue(Ok(l.items, l.selected), prev_status(col))
      [] code = "x"     -> Continue(del_selected(l), col)
      [] code = "Up"    -> Continue(previous(l), col)
      [] OTHER          -> Continue(Ok(l.items, l.selected), col)

\* a match whose l arm also clears the selection
match_key_l_unselects(code, l, col) ==
    CASE code = "q"     -> [items |-> l.items, selected |-> l.selected,
                            active_column |-> col, exit |-> "return"]
      [] code = "Left"  -> Continue(unselect(l), col)
      [] code = "Down"  -> Continue(next(l), col)
      [] code = "j"     -> Continue(next(l), col)
      [] code = "k"     -> Continue(previous(l), col)
      [] code = "l"     -> Continue(unselect(l), next_status(col))
      [] code = "h"     -> Continue(Ok(l.items, l.selected), prev_status(col))
      [] code = "x"     -> Continue(del_selected(l), col)
      [] code = "Up"    -> Continue(previous(l), col)
      [] OTHER          -> Continue(Ok(l.items, l.selected), col)

\* a match with the arms of j and k exchanged
match_key_jk_swapped(code, l, col) ==
    CASE code = "q"     -> [items |-> l.items, selected |-> l.selected,
                            active_column |-> col, exit |-> "return"]
      [] code = "Left"  -> Continue(unselect(l), col)
      [] code = "Down"  -> Continue(next(l), col)
      [] code = "j"     -> Continue(previous(l), col)
      [] code = "k"     -> Continue(next(l), col)
      [] code = "l"     -> Continue(Ok(l.items, l.selected), next_status(col))
      [] code = "h"     -> Continue(Ok(l.items, l.selected), prev_status(col))
      [] code = "x"     -> Continue(del_selected(l), col)
      [] code = "Up"    -> Continue(previous(l), col)
      [] OTHER          -> Continue(Ok(l.items, l.selected), col)

match_key(code, l, col) ==
    CASE code = "q"     -> [items |-> l.items, selected |-> l.selected,
                            active_column |-> col, exit |-> "return"]
      [] code = "Left"  -> Continue(unselect(l), col)
      [] code = "Down"  -> Continue(next(l), col)
      [] code = "j"     -> Continue(next(l), col)
      [] code = "k"     -> Continue(previous(l), col)
      [] code = "l"     -> Continue(Ok(l.items, l.selected), next_status(col))
      [] code = "h"     -> Continue(Ok(l.items, l.selected), prev_status(col))
      [] code = "x"     -> Continue(del_selected(l), col)
      [] code = "Up"    -> Continue(previous(l), col)
      [] OTHER          -> Continue(Ok(l.items, l.selected), col)

\* the body of `if crossterm::event::poll(timeout)? { ... }` for event ev
handle_event(ev, l, col) ==
    IF ev.type = "Key" /\ ev.kind = "Press"
    THEN match_key(ev.code, l, col)
    ELSE Continue(Ok(l.items, l.selected), col)

\* tick_rate.checked_sub(last_tick.elapsed()).unwrap_or_else(|| 0)
timeout == IF elapsed >= TICK_RATE THEN 0 ELSE TICK_RATE - elapsed

\* how long poll may have waited when it returns an event
Waits == {w \in {0, TimeStep, timeout} : w <= timeout}

\* the exploration bounds on a step to board r
DeleteInBounds(r) ==
    IF Len(r.items) = Len(items)
    THEN TRUE
    ELSE IF Len(items) <= MaxLen
         THEN TRUE
         ELSE Len(SeedItems) - Len(items) < MaxDeletes

WrapInBounds(r) ==
    IF r.selected = None
    THEN TRUE
    ELSE IF Len(r.items) > 0
         THEN TRUE
         ELSE Dist(r.selected[1]) <= MaxWrap

\* terminal.draw(|f| ui(f, &mut app, &mut active_column))
Draw ==
    /\ pc = "draw"
    /\ pc' = "poll"
    /\ \E d \in {0, TimeStep, TICK_RATE} : elapsed' = Min(elapsed + d, TICK_RATE)
    /\ UNCHANGED <<items, selected, events, active_column, overflow_checks>>

\* terminal.draw(..)? returns Err: run_app returns the error
DrawErr ==
    /\ pc = "draw"
    /\ pc' = "err"
    /\ UNCHANGED <<items, selected, events, active_column, elapsed,
                   overflow_checks>>

\* handling an event restarts the tick clock
PollEvent_resets_clock(ev, w) ==
    /\ pc = "poll"
    /\ LET r == handle_event(ev, [items |-> items, selected |-> selected],
                             active_column)
       IN  /\ DeleteInBounds(r)
           /\ WrapInBounds(r)
           /\ items' = r.items
           /\ selected' = r.selected
           /\ active_column' = r.active_column
           /\ pc' = CASE r.exit = "return"   -> "done"
                      [] r.exit = "panicked" -> "panicked"
                      [] OTHER               -> "tick"
    /\ elapsed' = 0
    /\ UNCHANGED <<events, overflow_checks>>

\* a loop that polls again after an event instead of going on to the tick
\* check
PollEvent_drains(ev, w) ==
    /\ pc = "poll"
    /\ LET r == handle_event(ev, [items |-> items, selected |-> selected],
                             active_column)
       IN  /\ DeleteInBounds(r)
           /\ WrapInBounds(r)
           /\ items' = r.items
           /\ selected' = r.selected
           /\ active_column' = r.active_column
           /\ pc' = CASE r.exit = "return"   -> "done"
                      [] r.exit = "panicked" -> "panicked"
                      [] OTHER               -> "poll"
    /\ elapsed' = Min(elapsed + w, TICK_RATE)
    /\ UNCHANGED <<events, overflow_checks>>

\* poll(timeout) returns true after waiting w, and the event read is ev
PollEvent(ev, w) ==
    /\ pc = "poll"
    /\ LET r == handle_event(ev, [items |-> items, selected |-> selected],
                             active_column)
       IN  /\ DeleteInBounds(r)
           /\ WrapInBounds(r)
           /\ items' = r.items
           /\ selected' = r.selected
           /\ active_column' = r.active_column
           /\ pc' = CASE r.exit = "return"   -> "done"
                      [] r.exit = "panicked" -> "panicked"
                      [] OTHER               -> "tick"
    /\ elapsed' = Min(elapsed + w, TICK_RATE)
    /\ UNCHANGED <<events, overflow_checks>>

\* poll(timeout) returns false: no event arrived within the timeout
PollTimeout ==
    /\ pc = "poll"
    /\ pc' = "tick"
    /\ elapsed' = Min(elapsed + timeout, TICK_RATE)
    /\ UNCHANGED <<items, selected, events, active_column, overflow_checks>>

\* crossterm::event::poll(timeout)? returns Err: run_app returns the error
PollErr ==
    /\ pc = "poll"
    /\ pc' = "err"
    /\ UNCHANGED <<items, selected, events, active_column, elapsed,
                   overflow_checks>>

\* poll(timeout) returns true after waiting w and event::read()? returns
\* Err: run_app returns the error
ReadErr ==
    /\ pc = "poll"
    /\ pc' = "err"
    /\ \E w \in Waits : elapsed' = Min(elapsed + w, TICK_RATE)
    /\ UNCHANGED <<items, selected, events, active_column, overflow_checks>>

\* if last_tick.elapsed() >= tick_rate { app.on_tick(); last_tick = now },
\* explored while fewer than `bound` rotations have been applied
Tick(bound) ==
    /\ pc = "tick"
    /\ pc' = "draw"
    /\ IF elapsed >= TICK_RATE
       THEN /\ Rotation(events) < bound
            /\ events' = on_tick(events)
            /\ elapsed' = 0
       ELSE UNCHANGED <<events, elapsed>>
    /\ UNCHANGED <<items, selected, active_column, overflow_checks>>

TickCheck == Tick(MaxTicks)

\* some event arrives within the timeout and is handled
Poll == \E ev \in InputEvents, w \in Waits : PollEvent(ev, w)

Next ==
    \/ Draw
    \/ DrawErr
    \/ Poll
    \/ PollTimeout
    \/ PollErr
    \/ ReadErr
    \/ TickCheck

\* main: App::new(), then run_app's locals.  No step of this specification
\* empties the list (MaxDeletes), so no subtraction overflows and the two
\* builds take the same steps: the overflow-checking one is explored here,
\* both are explored from InitBoard.
Init ==
    /\ items = with_items(SeedItems).items
    /\ selected = with_items(SeedItems).selected
    /\ events = SeedEvents
    /\ active_column = "ToDo"
    /\ elapsed = 0
    /\ pc = "draw"
    /\ overflow_checks = TRUE

Spec == Init /\ [][Next]_vars

----------------------------------------------------------------------------
(* The board after all but a few items have been deleted: every run of at  *)
(* most MaxLen consecutive seed items is reached from Init by deleting the *)
(* items before it (Down, then x for each) and the items after it (Up to   *)
(* the last item, then x for each), then Left.                             *)

SeedRuns(n) ==
    {SubSeq(SeedItems, p[1], p[2]) :
        p \in {q \in (1..Len(SeedItems)) \X (0..Len(SeedItems)) :
                  q[2] - q[1] + 1 \in 0..n}}

InitBoard ==
    /\ items \in SeedRuns(MaxLen)
    /\ selected = None
    /\ events = SeedEvents
    /\ active_column = "ToDo"
    /\ elapsed = 0
    /\ pc = "draw"
    /\ overflow_checks \in BOOLEAN

SpecBoard == InitBoard /\ [][Next]_vars

----------------------------------------------------------------------------
(* The loop followed through every rotation of the log queue, with every   *)
(* key of the input alphabet.  The board starts as the first items of the  *)
(* seed, at most MaxLen of them: reached from Init by deleting the items   *)
(* after them (Up to the last item, then x for each), then Left.           *)

SeedHeads(n) == {s \in SeedRuns(n) : s = SubSeq(SeedItems, 1, Len(s))}

InitLog ==
    /\ items \in SeedHeads(MaxLen)
    /\ selected = None
    /\ events = SeedEvents
    /\ active_column = "ToDo"
    /\ elapsed = 0
    /\ pc = "draw"
    /\ overflow_checks \in BOOLEAN

\* Rotation is below the length of the queue: the tick check is never cut
TickCheckLog == Tick(Len(SeedEvents))

NextLog ==
    \/ Draw
    \/ DrawErr
    \/ Poll
    \/ PollTimeout
    \/ PollErr
    \/ ReadErr
    \/ TickCheckLog

SpecLog == InitLog /\ [][NextLog]_vars

----------------------------------------------------------------------------
(* The commands as steps of the loop, and the board as a StatefulList *)

KeyPress(code) ==
    /\ pc = "poll"
    /\ \E w \in Waits : PollEvent(KeyPressEvent(code), w)

select_next == KeyPress("Down") \/ KeyPress("j")
select_previous == KeyPress("Up") \/ KeyPress("k")
delete_selected == KeyPress("x")
cycle_forward == KeyPress("l")
cycle_backward == KeyPress("h")

board == [items |-> items, selected |-> selected]
board_after == [items |-> items', selected |-> selected']

\* the item at 0-based index i
At(s, i) == s[i + 1]

----------------------------------------------------------------------------
(* Claims *)

\* C1: no command ever fails: after any sequence of Board commands and
\* ticks the loop has not panicked (no removal outside the backing sequence,
\* no underflow of the index arithmetic), also once the list is empty.
C1_NoCommandFails == pc # "panicked"

\* C2: whenever delete_selected empties the sequence (a selection on a
\* sequence of length 1), the sequence is empty and the selection is none.
C2_DeleteLastClearsSelection ==
    [][(delete_selected /\ Len(items) = 1 /\ selected # None)
          => (items' = <<>> /\ selected' = None)]_vars

\* C3: on a sequence of length n >= 2 with selected index i in 0..n-1,
\* delete_selected removes exactly the item at i (the items before i stay,
\* the items after i move up by one) and selects i-1 if i > 0, else 0.
C3_DeleteReselects ==
    [][(/\ delete_selected
        /\ Len(items) >= 2
        /\ selected # None
        /\ selected[1] \in 0..(Len(items) - 1))
          => LET i == selected[1]
                 n == Len(items)
             IN  /\ pc' = "tick"
                 /\ Len(items') = n - 1
                 /\ \A k \in 0..(i - 1) : At(items', k) = At(items, k)
                 /\ \A k \in i..(n - 2) : At(items', k) = At(items, k + 1)
                 /\ selected' = Some(IF i > 0 THEN i - 1 ELSE 0)]_vars

\* a deletion in the middle has happened: the first and third item of the
\* seed are adjacent, and the selection has moved from index 1 to index 0
C3_Witness ==
    /\ items = <<SeedItems[1], SeedItems[3]>>
    /\ selected = Some(0)
    /\ pc = "tick"

\* C4: whenever the list is non-empty and a selection exists at a draw, the
\* selected index is within bounds of each of the three status-filtered
\* views it is rendered against.
C4_SelectionWithinViews ==
    (pc = "draw" /\ Len(items) > 0 /\ selected # None)
        => \A c \in 1..3 : selected[1] < Len(ui[c].items)

\* C5: on a non-empty sequence of length n, select_next and select_previous
\* select 0 from "no selection"; otherwise select_next maps i to (i+1) mod n
\* and select_previous maps i to (i-1) mod n, n being the length of the full
\* backing sequence.
C5_NavigationWraps ==
    [][Len(items) > 0
          => LET n == Len(items)
             IN  /\ select_next
                    => selected' = IF selected = None THEN Some(0)
                                   ELSE Some((selected[1] + 1) % n)
                 /\ select_previous
                    => selected' = IF selected = None THEN Some(0)
                                   ELSE Some((selected[1] - 1) % n)]_vars

\* the selection is on the last item of a list that some column shows only
\* in part: an index no shorter, filtered view has
C5_Witness ==
    /\ Len(items) >= 2
    /\ selected = Some(Len(items) - 1)
    /\ \E c \in 1..3 : Len(ui[c].items) \in 1..(Len(items) - 1)
    /\ pc = "tick"

\* C6 as stated: from any Board state, the state with no selection
\* included, select_next followed by select_previous, and select_previous
\* followed by select_next, restore the prior selection.
C6_InverseFromAnyState ==
    [][/\ select_next => previous(board_after).selected = selected
       /\ select_previous => next(board_after).selected = selected]_vars

\* C6 amended: from any Board state in which an item is selected (a
\* selection exists and its index addresses an item of the sequence),
\* select_next followed by select_previous, and select_previous followed by
\* select_next, restore the prior selection.
C6_InverseWithSelection ==
    [][(IF selected = None THEN FALSE ELSE selected[1] \in 0..(Len(items) - 1))
          => /\ select_next
                => /\ pc' = "tick"
                   /\ previous(board_after) = Ok(items, selected)
             /\ select_previous
                => /\ pc' = "tick"
                   /\ next(board_after) = Ok(items, selected)]_vars

\* the selection has been moved to the last item, from where select_next
\* wraps to the first item and select_previous wraps back
C6_Witness ==
    /\ Len(items) >= 2
    /\ selected = Some(Len(items) - 1)
    /\ next(board).selected = Some(0)
    /\ previous(next(board)).selected = selected
    /\ pc = "tick"

\* select_next applied k times
RECURSIVE NextTimes(_, _)
NextTimes(l, k) ==
    IF k = 0 THEN Ok(l.items, l.selected) ELSE next(NextTimes(l, k - 1))

\* C7: on a non-empty sequence of length n, from every selected index,
\* select_next applied n times returns to that index and no smaller positive
\* number of applications does.
C7_NextHasOrderN ==
    (Len(items) > 0 /\ selected # None)
        => \A k \in 1..Len(items) :
              (NextTimes(board, k).selected = selected) <=> (k = Len(items))

\* the selection has travelled to the last of MaxLen items; one more
\* select_next wraps it to the first
C7_Witness ==
    /\ Len(items) = MaxLen
    /\ selected = Some(MaxLen - 1)
    /\ NextTimes(board, 1).selected = Some(0)
    /\ NextTimes(board, MaxLen).selected = selected
    /\ pc = "tick"

\* C8: on an empty sequence select_next and select_previous are no-ops:
\* the selection and the items are unchanged and nothing fails.
C8_EmptyNavigationNoOp ==
    [][(Len(items) = 0 /\ (select_next \/ select_previous))
          => (selected' = selected /\ items' = items /\ pc' = "tick")]_vars

\* C9: delete_selected with no selection changes nothing: the items, the
\* selection (still none), the active column and the log queue stay as they
\* are; so x on the 24-item seed with no selection leaves 24 items.
C9_DeleteWithoutSelectionNoOp ==
    [][(delete_selected /\ selected = None)
          => /\ items' = items
             /\ selected' = None
             /\ active_column' = active_column
             /\ events' = events
             /\ pc' = "tick"
             /\ (items = SeedItems => Len(items') = 24)]_vars

\* an event has been handled on the seed board and the 24 items are there,
\* with no selection
C9_Witness ==
    /\ items = SeedItems
    /\ Len(items) = 24
    /\ selected = None
    /\ del_selected(board) = Ok(SeedItems, None)
    /\ pc = "tick"

\* the cycle the claim states
ForwardCycle == [ToDo |-> "UpNext", UpNext |-> "InProgress", InProgress |-> "ToDo"]

\* C10: cycling forward follows ToDo -> UpNext -> InProgress -> ToDo and
\* cycling backward is its inverse: forward three times, forward then
\* backward, and backward then forward are the identity on every Status.
C10_ColumnCycle ==
    [][/\ cycle_forward
          => /\ active_column' = ForwardCycle[active_column]
             /\ prev_status(active_column') = active_column
             /\ next_status(next_status(active_column')) = active_column
       /\ cycle_backward
          => /\ ForwardCycle[active_column'] = active_column
             /\ next_status(active_column') = active_column
             /\ next_status(next_status(next_status(active_column')))
                   = active_column']_vars

\* l has been pressed twice from the initial column (or h once): the next l
\* returns to ToDo
C10_Witness ==
    /\ active_column = "InProgress"
    /\ next_status(active_column) = "ToDo"
    /\ pc = "tick"

----------------------------------------------------------------------------
(* The tick check as a step of the loop *)

\* the tick check finds the tick interval elapsed
tick_fires == pc = "tick" /\ elapsed >= TICK_RATE /\ pc' = "draw"

\* the tick check finds it not elapsed
tick_skipped == pc = "tick" /\ elapsed < TICK_RATE /\ pc' = "draw"

\* q rotated left by k places, written position by position
RotateLeft(q, k) == [j \in 1..Len(q) |-> q[((j - 1 + k) % Len(q)) + 1]]

\* on_tick applied k times
RECURSIVE Advance(_, _)
Advance(q, k) == IF k = 0 THEN q ELSE on_tick(Advance(q, k - 1))

\* C11: one advance moves the front entry to the back and every other
\* entry one place forward, creating and destroying none; so k advances
\* rotate the queue by k mod m, and m advances (m the queue length) restore
\* its order.
C11_AdvanceRotates ==
    [][tick_fires
          => LET m == Len(events)
             IN  /\ Len(events') = m
                 /\ events'[m] = events[1]
                 /\ \A j \in 1..(m - 1) : events'[j] = events[j + 1]
                 /\ \A k \in 0..(2 * m) :
                        Advance(events, k) = RotateLeft(events, k % m)
                 /\ Advance(events', m - 1) = events]_vars

\* the queue has been advanced all but once around: Event2 is at the back,
\* and one more advance restores the order of App::new
C11_Witness ==
    /\ Rotation(events) = Len(SeedEvents) - 1
    /\ events[1] = SeedEvents[Len(SeedEvents)]
    /\ on_tick(events) = SeedEvents
    /\ pc = "draw"

\* C12: a tick check that finds the interval elapsed advances the queue
\* exactly once and resets the tick clock, whatever the poll before it did;
\* a tick check that finds it not elapsed advances nothing; and handling an
\* event never advances the queue nor moves the tick clock back: the time
\* since the last tick only grows, by the time the poll waited.
C12_TickIndependentOfInput ==
    [][/\ tick_fires
          => (events' = RotateLeft(events, 1) /\ elapsed' = 0)
       /\ tick_skipped
          => (events' = events /\ elapsed' = elapsed)
       /\ pc = "poll"
          => /\ events' = events
             /\ elapsed' >= elapsed
             /\ elapsed' <= elapsed + timeout]_vars

\* a key has been handled (a selection exists), a tick check has fired and
\* reset the clock, and the loop is back at the draw
C12_Witness ==
    /\ pc = "draw"
    /\ elapsed = 0
    /\ Rotation(events) = 1
    /\ selected # None

\* the q key is pressed
quit == KeyPress("q")

\* C13: the step that receives q ends the loop at once: it changes neither
\* the board, the active column nor the log queue, the tick check of that
\* iteration is not reached, and once terminated nothing changes any more.
C13_QuitIsImmediate ==
    [][/\ quit
          => /\ pc' = "done"
             /\ items' = items
             /\ selected' = selected
             /\ active_column' = active_column
             /\ events' = events
       /\ pc = "done"
          => /\ pc' = "done"
             /\ UNCHANGED <<items, selected, active_column, events, elapsed>>]_vars

\* the loop has terminated, and the selection and the column change made
\* before q are in place
C13_Witness ==
    /\ pc = "done"
    /\ selected # None
    /\ active_column # "ToDo"

\* event ev is read and handled
Handled(ev) ==
    /\ pc = "poll"
    /\ \E w \in Waits : PollEvent(ev, w)

\* the step leaves the board and the column as the command left them, and
\* the log queue as it was
Outcome(r, col) ==
    /\ items' = r.items
    /\ selected' = r.selected
    /\ active_column' = col
    /\ events' = events
    /\ pc' = IF r.panicked THEN "panicked" ELSE "tick"

\* C14: a key press is dispatched by the table: q terminates; Left
\* unselects; Down and j select next; Up and k select previous; l cycles
\* the column forward and h backward; x deletes the selected item; any
\* other key, and any event that is not a key press, changes nothing and
\* does not terminate the loop.
C14_KeyDispatch ==
    [][\A ev \in InputEvents :
          Handled(ev)
             => IF ev.type = "Key" /\ ev.kind = "Press"
                THEN CASE ev.code = "q"
                            -> pc' = "done"
                       [] ev.code = "Left"
                            -> Outcome(unselect(board), active_column)
                       [] ev.code \in {"Down", "j"}
                            -> Outcome(next(board), active_column)
                       [] ev.code \in {"Up", "k"}
                            -> Outcome(previous(board), active_column)
                       [] ev.code = "l"
                            -> Outcome(Ok(items, selected),
                                       next_status(active_column))
                       [] ev.code = "h"
                            -> Outcome(Ok(items, selected),
                                       prev_status(active_column))
                       [] ev.code = "x"
                            -> Outcome(del_selected(board), active_column)
                       [] OTHER
                            -> Outcome(Ok(items, selected), active_column)
                ELSE Outcome(Ok(items, selected), active_column)]_vars

\* keys have been dispatched: l twice (or h once) and a navigation key
\* that left the second item selected
C14_Witness ==
    /\ pc = "tick"
    /\ active_column = "InProgress"
    /\ selected = Some(1)
    /\ Len(items) >= 2

\* s is t with some of its elements left out, the rest in t's order
RECURSIVE IsSubseq(_, _)
IsSubseq(s, t) ==
    IF s = <<>> THEN TRUE
    ELSE IF t = <<>> THEN FALSE
    ELSE IF Head(s) = Head(t) THEN IsSubseq(Tail(s), Tail(t))
    ELSE IsSubseq(s, Tail(t))

\* C15: the item sequence is always an order-preserving subsequence of
\* the 24-item seed (10 ToDo, 11 InProgress, 3 UpNext), so every item
\* keeps the status it was seeded with; only delete_selected changes the
\* sequence, it removes exactly one item and keeps the order of the rest;
\* the item count never increases.
C15_ItemsSubsequenceOfSeed ==
    /\ [](/\ IsSubseq(items, SeedItems)
          /\ Len(SeedItems) = 24
          /\ Len(Filter(SeedItems, "ToDo")) = 10
          /\ Len(Filter(SeedItems, "InProgress")) = 11
          /\ Len(Filter(SeedItems, "UpNext")) = 3)
    /\ [][/\ Len(items') <= Len(items)
          /\ items' # items
                => /\ delete_selected
                   /\ Len(items') = Len(items) - 1
                   /\ IsSubseq(items', items)]_vars

\* an item from the middle of the seed has been deleted
C15_Witness ==
    /\ Len(items) = Len(SeedItems) - 1
    /\ items[1] = SeedItems[1]
    /\ items[Len(items)] = SeedItems[Len(SeedItems)]

\* the step applies at most one command to the board or the column
OneMutation ==
    \/ /\ active_column' = active_column
       /\ \E r \in {Ok(items, selected), unselect(board), next(board),
                    previous(board), del_selected(board)} :
             /\ items' = r.items
             /\ selected' = r.selected
    \/ /\ active_column' \in {next_status(active_column),
                              prev_status(active_column)}
       /\ items' = items
       /\ selected' = selected

\* C16: an iteration runs render, poll, dispatch, tick check in this
\* order (a step that leaves the loop ends the iteration there); it
\* applies at most one input-driven mutation and then at most one advance
\* of the log queue: no second event is dispatched and no second advance
\* is made before the next render.
C16_IterationOrder ==
    [][/\ pc = "draw"
          => /\ pc' \in {"poll", "err"}
             /\ UNCHANGED <<items, selected, active_column, events>>
       /\ pc = "poll"
          => /\ pc' \in {"tick", "done", "panicked", "err"}
             /\ events' = events
             /\ OneMutation
       /\ pc = "tick"
          => /\ pc' = "draw"
             /\ UNCHANGED <<items, selected, active_column>>
             /\ events' \in {events, on_tick(events)}]_vars

\* an iteration that moved the column and advanced the queue has ended
C16_Witness ==
    /\ pc = "draw"
    /\ elapsed = 0
    /\ Rotation(events) = 1
    /\ active_column = "UpNext"

----------------------------------------------------------------------------
(* The loop keeps running, and the clock keeps advancing: Instant::now()   *)
(* is monotonic and real time passes, so an execution in which the wait   *)
(* of every render and every poll is zero for ever does not occur.         *)

SpecLogFair ==
    /\ SpecLog
    /\ WF_vars(NextLog)
    /\ SF_vars(NextLog /\ elapsed' > elapsed)

\* C17: key input cannot starve the rotation: if quit never
\* arrives, the queue is advanced infinitely often whatever events arrive;
\* and once the time since the last tick has reached the interval, the
\* timeout is 0 and the tick check of that iteration advances the queue.
C17_AdvanceUnlessQuit ==
    /\ []<><<tick_fires>>_vars \/ <>(pc = "done")
    /\ (pc = "poll" /\ elapsed >= TICK_RATE)
          ~> (pc = "done" \/ (pc = "draw" /\ elapsed = 0))
    /\ [][/\ (pc = "poll" /\ elapsed >= TICK_RATE)
             => /\ timeout = 0
                /\ pc' \in {"tick", "done"}
                /\ pc' = "tick" => elapsed' >= TICK_RATE
          /\ (pc = "tick" /\ elapsed >= TICK_RATE)
             => /\ events' = on_tick(events)
                /\ pc' = "draw"]_vars

----------------------------------------------------------------------------
\* KeyCode::Left => app.items.unselect()
clear_selection == KeyPress("Left")

\* C18: each part of the state is changed only by its own commands:
\* select_next, select_previous and unselect leave the items, the active
\* column and the log queue unchanged; cycling the column leaves the
\* items, the selection and the log queue unchanged; delete_selected
\* leaves the active column and the log queue unchanged; a tick leaves
\* the items, the selection and the active column unchanged.
C18_FrameConditions ==
    [][/\ (select_next \/ select_previous \/ clear_selection)
             => UNCHANGED <<items, active_column, events>>
       /\ (cycle_forward \/ cycle_backward)
             => UNCHANGED <<items, selected, events>>
       /\ delete_selected
             => UNCHANGED <<active_column, events>>
       /\ tick_fires
             => UNCHANGED <<items, selected, active_column>>]_vars

\* the column was cycled and the queue advanced while an item stayed
\* selected
C18_Witness ==
    /\ pc = "tick"
    /\ selected = Some(0)
    /\ active_column = "UpNext"
    /\ Rotation(events) = 1

----------------------------------------------------------------------------
\* the title of the column for a status
Label(S) ==
    CASE S = "ToDo"       -> "To Do"
      [] S = "UpNext"     -> "Up Next"
      [] S = "InProgress" -> "In Progress"

\* C19: for each status S, the column labelled for S, which is the one
\* emphasized when the active column is S, shows exactly the items whose
\* status is S, in the order of the backing sequence; from the seed the
\* ToDo column shows 10 items, the UpNext column 3 and the InProgress
\* column 11.
C19_ColumnShowsItsStatus ==
    \A S \in Status :
       \E c \in 1..Len(ui) :
          /\ ui[c].title = Label(S)
          /\ ui[c].emphasized = (active_column = S)
          /\ ui[c].items = Filter(items, S)
          /\ items = SeedItems
                => Len(ui[c].items) = CASE S = "ToDo"       -> 10
                                        [] S = "UpNext"     -> 3
                                        [] S = "InProgress" -> 11

----------------------------------------------------------------------------
\* C20: whenever a selection exists, its index addresses an item of the
\* full backing sequence (index < length); so no selection exists while
\* the sequence is empty.
C20_SelectionAddressesItem ==
    IF selected = None
    THEN TRUE
    ELSE /\ ULt(selected[1], Len(items))
         /\ items # <<>>

====
